---- MODULE Spec2Model ----
(***************************************************************************)
(* The Atlantis pearl scheduler (atlantis/simulators.py, AtlantisSimulator) *)
(* as a state machine: one Step action per call of step(world).            *)
(***************************************************************************)
EXTENDS Integers, Sequences, FiniteSets, TLC

(* ------------------------------ bounds -------------------------------- *)
\* largest number of workers of a world (ids 0..n-1, worker 0 the gatekeeper)
MaxWorkers == 3
\* pearl ids are 1..MaxPearls
MaxPearls == 2
\* a pearl has at most MaxLayers layers
MaxLayers == 1
\* a layer's thickness is 0..MaxThick
MaxThick == 2
\* a run reads at most MaxTicks snapshots
MaxTicks == 2
\* a pearl given to the cost functions has at most MaxCostLayers layers
MaxCostLayers == 2
\* each 0..MaxCostThick thick
MaxCostThick == 11
\* a worker's load, when the builder is applied on its own, is 0..MaxLoad
MaxLoad == 1
\* pearls on the desks of a snapshot of a run whose graph changes
MaxRegraphPearls == 1

(* --------------------------- program constants ------------------------ *)
\* math.inf, the default of move_costs.get
Inf == 1000000

Colors == {"Red", "Green", "Blue"}
Kinds == {"General", "Vector", "Matrix"}
PearlIds == 1..MaxPearls

Max(a, b) == IF a >= b THEN a ELSE b

(* ------------------------------ pearls.py ----------------------------- *)
RECURSIVE SumThickness(_, _)
SumThickness(layers, i) ==
    IF i > Len(layers) THEN 0 ELSE layers[i].thickness + SumThickness(layers, i + 1)

\* Pearl.remaining_thickness: the sum of the layers' thicknesses
remaining_thickness(layers) == SumThickness(layers, 1)

\* Pearl.remaining_layers: the layers with a non-zero thickness
remaining_layers(layers) == SelectSeq(layers, LAMBDA l : l.thickness # 0)

\* digested only without any layer
NoLayers(layers) == Len(layers) = 0

\* Pearl.digested: remaining_layers yields nothing
digested(layers) == Len(remaining_layers(layers)) = 0

(* ------------------------------ workers.py ---------------------------- *)
\* GeneralWorker / VectorWorker / MatrixWorker .processing_rate
processing_rate(kind, color) ==
    CASE kind = "General" -> 1
      [] kind = "Vector"  -> (CASE color = "Red" -> 1 [] color = "Green" -> 5 [] color = "Blue" -> 2)
      [] kind = "Matrix"  -> (CASE color = "Red" -> 1 [] color = "Green" -> 2 [] color = "Blue" -> 10)

\* a cost that rounds down
CostFloor(kind, layer) == layer.thickness \div processing_rate(kind, layer.color)

\* Worker.cost_layer: ceil(thickness * 1.0 / rate)
cost_layer(kind, layer) ==
    LET r == processing_rate(kind, layer.color)
    IN  (layer.thickness + r - 1) \div r

RECURSIVE SumCost(_, _, _)
SumCost(kind, layers, i) ==
    IF i > Len(layers) THEN 0
    ELSE cost_layer(kind, layers[i]) + SumCost(kind, layers, i + 1)

\* Worker.cost_pearl: the sum of cost_layer over pearl.layers
cost_pearl(kind, layers) == SumCost(kind, layers, 1)

(* ------------------------------ commands.py --------------------------- *)
PassCommand(w, p, t) == [type |-> "Pass", worker_id |-> w, pearl_id |-> p, target_worker_id |-> t]
NomCommand(w, p) == [type |-> "Nom", worker_id |-> w, pearl_id |-> p]

(* ------------------------------- world.py ----------------------------- *)
\* the ids of world.workers
WorkerIds(w) == DOMAIN w.workers

\* the set World.__init__ collects for one worker from worker_neighbor_map
NeighborSet(w, id) ==
    {e[2] : e \in {x \in w.neighbor_map : x[1] = id}} \cup
    {e[1] : e \in {x \in w.neighbor_map : x[2] = id}}

RECURSIVE SortedById(_)
SortedById(S) ==
    IF S = {} THEN <<>>
    ELSE LET m == CHOOSE x \in S : \A y \in S : x <= y
         IN  <<m>> \o SortedById(S \ {m})

\* world.worker_neighbors has a key only for a worker that occurs in neighbor_map
HasNeighbors(w, id) == NeighborSet(w, id) # {}

\* world.worker_neighbors[worker]: the neighbours sorted by id
worker_neighbors(w, id) == SortedById(NeighborSet(w, id))

\* World.get_pearls_with_workers: `for p in worker.pearls` walks the dict
\* Worker.__init__ builds, {p.id: p}, so p is a key, the pearl's id, and the
\* result maps pearl ids (not Pearl objects) to workers; an int n is written
\* [int |-> n]; desks is kept in the order of world.workers, then of each desk
get_pearls_with_workers(w) ==
    [i \in 1..Len(w.desks) |-> [pearl |-> [int |-> w.desks[i].id], worker |-> w.desks[i].worker]]

\* the Dict[Pearl, Worker] the annotation of pearl_workers (world.py:44) names:
\* the Pearl objects of the desks with their workers, in the same order
PearlObjects(w) ==
    [i \in 1..Len(w.desks) |->
        [pearl |-> [id |-> w.desks[i].id, layers |-> w.desks[i].layers],
         worker |-> w.desks[i].worker]]

\* whether a Python value has the attributes of a Pearl (.id, .layers): an int
\* has not, and pearl.id on it raises AttributeError
IsPearl(x) == "id" \in DOMAIN x

(* ---------------------------- simulators.py --------------------------- *)
\* `end` omitted (None) in find_shortest_path
NoEnd == -1

\* heapq.heappop(queue) of (cost, worker_id) tuples: the smallest tuple
HeapMin(queue) ==
    CHOOSE x \in queue : \A y \in queue :
        x[1] < y[1] \/ (x[1] = y[1] /\ x[2] <= y[2])

\* move_costs.get(n.id, inf): move_costs is keyed by Worker objects, which
\* compare by identity, so the lookup by the integer id finds no key
last_move_cost(move_costs, id) == Inf

\* the neighbour loop of find_shortest_path for the popped (cost, worker_id):
\* the record [move_costs, move_paths, queue] after the loop
RelaxNeighbors(w, costs, cost, worker_id, visited, s) ==
    LET N == {n \in NeighborSet(w, worker_id) :
                 /\ n \notin visited
                 /\ cost + costs[n] + 1 < last_move_cost(s.move_costs, n)}
    IN  [move_costs |-> [n \in N |-> cost + costs[n] + 1] @@ s.move_costs,
         move_paths |-> [n \in N |-> worker_id] @@ s.move_paths,
         queue      |-> s.queue \cup {<<cost + costs[n] + 1, n>> : n \in N}]

RECURSIVE ShortestPathLoop(_, _, _, _, _)
\* the while loop of find_shortest_path; err is the KeyError of
\* world.worker_neighbors[worker] for a worker without any edge
ShortestPathLoop(w, costs, endw, visited, s) ==
    IF s.queue = {} THEN [move_paths |-> s.move_paths, move_costs |-> s.move_costs, err |-> FALSE]
    ELSE LET top  == HeapMin(s.queue)
             rest == [s EXCEPT !.queue = @ \ {top}]
         IN  IF top[2] \in visited THEN ShortestPathLoop(w, costs, endw, visited, rest)
             ELSE IF endw # NoEnd /\ top[2] = endw
                  THEN [move_paths |-> s.move_paths, move_costs |-> s.move_costs, err |-> FALSE]
             ELSE IF ~HasNeighbors(w, top[2])
                  THEN [move_paths |-> s.move_paths, move_costs |-> s.move_costs, err |-> TRUE]
             ELSE ShortestPathLoop(w, costs, endw, visited \cup {top[2]},
                     RelaxNeighbors(w, costs, top[1], top[2], visited \cup {top[2]}, rest))

\* AtlantisSimulator.find_shortest_path(world, start, end)
find_shortest_path(w, costs, start, endw) ==
    ShortestPathLoop(w, costs, endw, {},
        [move_costs |-> (start :> 0), move_paths |-> <<>>, queue |-> {<<0, start>>}])

\* a route that jumps from start to end, leaving out the workers between
RouteDirect(start, endw, paths) == IF endw = start THEN <<endw>> ELSE <<start, endw>>

RECURSIVE RouteBackwards(_, _, _)
\* a route left in the order the predecessors are followed, from end to start
RouteBackwards(start, endw, paths) ==
    IF endw = start THEN <<endw>>
    ELSE <<endw>> \o RouteBackwards(start, paths[endw], paths)

RECURSIVE create_route(_, _, _)
\* AtlantisSimulator.create_route: follow paths back from end to start
create_route(start, endw, paths) ==
    IF endw = start THEN <<endw>>
    ELSE create_route(start, paths[endw], paths) \o <<endw>>

\* AtlantisSimulator.find_route
find_route(w, costs, start, endw) ==
    create_route(start, endw, find_shortest_path(w, costs, start, endw).move_paths)

\* commands with one Nom per unit of thickness, whatever the worker's rate
CommandsByThickness(w, pearl, route) ==
    [i \in 1..(Len(route) - 1) |-> PassCommand(route[i], pearl.id, route[i + 1])]
    \o [i \in 1..remaining_thickness(pearl.layers) |-> NomCommand(route[Len(route)], pearl.id)]

\* a plan whose Nom commands are issued by the holder, not by the worker the
\* route ends at
NomsAtHolder(w, pearl, route) ==
    [i \in 1..(Len(route) - 1) |-> PassCommand(route[i], pearl.id, route[i + 1])]
    \o [i \in 1..cost_pearl(w.workers[route[Len(route)]], pearl.layers) |->
          NomCommand(route[1], pearl.id)]

\* AtlantisSimulator.create_commands_from_route
create_commands_from_route(w, pearl, route) ==
    LET passes  == [i \in 1..(Len(route) - 1) |-> PassCommand(route[i], pearl.id, route[i + 1])]
        current == route[Len(route)]
        nom_steps == cost_pearl(w.workers[current], pearl.layers)
    IN  IF digested(pearl.layers) THEN passes
        ELSE passes \o [i \in 1..nom_steps |-> NomCommand(current, pearl.id)]

\* worker_affinities is None until the first step
None == <<>>
IsNone(aff) == DOMAIN aff = {}

\* create_worker_affinities, lines 158-162: max cost minus cost, per worker
AffinitiesFrom(move_costs) ==
    LET max_cost == CHOOSE c \in {move_costs[x] : x \in DOMAIN move_costs} :
                        \A x \in DOMAIN move_costs : move_costs[x] <= c
    IN  [x \in DOMAIN move_costs |-> max_cost - move_costs[x]]

\* AtlantisSimulator.create_worker_affinities: max distance minus distance
\* from the gatekeeper, over the workers find_shortest_path gave a cost
create_worker_affinities(w, costs) ==
    AffinitiesFrom(find_shortest_path(w, costs, 0, NoEnd).move_costs)

\* worker_affinities[id] of a defaultdict(int): 0 for a missing key
Affinity(aff, id) == IF id \in DOMAIN aff THEN aff[id] ELSE 0

\* a total that leaves the booking cost of the worker out
TotalUnbooked(w, costs, aff, pearl, n, move_cost) ==
    cost_pearl(w.workers[n], pearl.layers) + move_cost

\* select_best_worker_route, lines 201-205 and 240-243: processing cost plus
\* move cost plus booking cost of nomming the pearl at worker n
TotalCost(w, costs, aff, pearl, n, move_cost) ==
    cost_pearl(w.workers[n], pearl.layers) + move_cost + costs[n] + Affinity(aff, n)

\* select_best_worker_route, lines 235-249: neighbour n is reached from worker
\* at move_cost and total_cost is compared with the best so far
Reached(s, worker, n, move_cost, total_cost) ==
    [move_costs  |-> (n :> move_cost) @@ s.move_costs,
     move_paths  |-> (n :> worker) @@ s.move_paths,
     queue       |-> Append(s.queue, <<move_cost, n>>),
     best_cost   |-> IF total_cost < s.best_cost THEN total_cost ELSE s.best_cost,
     best_worker |-> IF total_cost < s.best_cost THEN n ELSE s.best_worker]

\* select_best_worker_route, lines 228-249: the loop body for neighbour n
RelaxOne(w, costs, aff, pearl, worker, move_cost, n, s) ==
    IF (IF n \in DOMAIN s.move_costs THEN s.move_costs[n] ELSE Inf) <= move_cost
    THEN s
    ELSE Reached(s, worker, n, move_cost, TotalCost(w, costs, aff, pearl, n, move_cost))

RECURSIVE RelaxBest(_, _, _, _, _, _, _, _, _)
\* the neighbour loop of select_best_worker_route over neighbors, from the
\* i-th on
RelaxBest(w, costs, aff, pearl, worker, move_cost, neighbors, i, s) ==
    IF i > Len(neighbors) THEN s
    ELSE RelaxBest(w, costs, aff, pearl, worker, move_cost, neighbors, i + 1,
            RelaxOne(w, costs, aff, pearl, worker, move_cost, neighbors[i], s))

RECURSIVE BestWorkerLoop(_, _, _, _, _)
\* the while loop of select_best_worker_route over the FIFO queue
BestWorkerLoop(w, costs, aff, pearl, s) ==
    IF s.queue = <<>> THEN s
    ELSE IF s.queue[1][1] >= s.best_cost
    THEN BestWorkerLoop(w, costs, aff, pearl, [s EXCEPT !.queue = Tail(@)])
    ELSE BestWorkerLoop(w, costs, aff, pearl,
            RelaxBest(w, costs, aff, pearl, s.queue[1][2], s.queue[1][1] + 1,
                      worker_neighbors(w, s.queue[1][2]), 1, [s EXCEPT !.queue = Tail(@)]))

\* the search state select_best_worker_route ends with
BestWorkerSearch(w, costs, aff, pearl, worker) ==
    BestWorkerLoop(w, costs, aff, pearl,
        [move_costs  |-> (worker :> 0),
         move_paths  |-> <<>>,
         queue       |-> << <<0, worker>> >>,
         best_cost   |-> cost_pearl(w.workers[worker], pearl.layers)
                         + costs[worker] + Affinity(aff, worker),
         best_worker |-> worker])

\* select_best_worker_route, line 257: the route to the best worker found
BestRoute(worker, s) == create_route(worker, s.best_worker, s.move_paths)

\* AtlantisSimulator.select_best_worker_route
select_best_worker_route(w, costs, aff, pearl, worker) ==
    BestRoute(worker, BestWorkerSearch(w, costs, aff, pearl, worker))

\* create_execution_plan, lines 175-185: the route of the plan
ExecutionRoute(w, costs, aff, pearl, worker) ==
    IF digested(pearl.layers)
    THEN find_route(w, costs, worker, 0)
    ELSE select_best_worker_route(w, costs, aff, pearl, worker)

\* AtlantisSimulator.create_execution_plan
create_execution_plan(w, costs, aff, pearl, worker) ==
    LET route == IF digested(pearl.layers)
                 THEN find_route(w, costs, worker, 0)
                 ELSE select_best_worker_route(w, costs, aff, pearl, worker)
    IN  create_commands_from_route(w, pearl, route)

\* AtlantisSimulator.prioritize_command; the float 1.0 / thickness is kept as
\* the exact fraction <<numerator, denominator>>
prioritize_command(cmd, layers) ==
    LET t == remaining_thickness(layers)
    IN  IF cmd.type = "Pass"
        THEN (IF t # 0 THEN <<1, t>> ELSE <<0, 1>>)
        ELSE <<t, 1>>

\* Python's < on the (priority, pearl.id, cmd) tuples pushed on a worker's heap
\* (pearl ids are unique, so the commands themselves are never compared)
ItemLess(a, b) ==
    \/ a.priority[1] * b.priority[2] < b.priority[1] * a.priority[2]
    \/ /\ a.priority[1] * b.priority[2] = b.priority[1] * a.priority[2]
       /\ a.pearl_id < b.pearl_id

\* heapq.heappush(worker_cmds, item): the list stays a heap, its smallest item
\* first (kept here in ascending order)
heappush(heap, item) ==
    LET k == Cardinality({i \in 1..Len(heap) : ItemLess(heap[i], item)})
    IN  SubSeq(heap, 1, k) \o <<item>> \o SubSeq(heap, k + 1, Len(heap))

\* heapq.heappop(worker_cmds): the smallest item
heappop(heap) == heap[1]

\* proposed_cmds[id] of a defaultdict(list)
ProposedAt(proposed, id) == IF id \in DOMAIN proposed THEN proposed[id] ELSE <<>>

RECURSIVE CountFor(_, _, _)
\* how many commands of plan, from index i on, are issued by worker id
CountFor(plan, id, i) ==
    IF i > Len(plan) THEN 0
    ELSE (IF plan[i].worker_id = id THEN 1 ELSE 0) + CountFor(plan, id, i + 1)

\* a booking that subtracts
BookNegated(costs, plan) == [id \in DOMAIN costs |-> costs[id] - CountFor(plan, id, 1)]
\* step, lines 91-92: worker_costs[cmd.worker_id] += 1 for each cmd of the plan
Book(costs, plan) == [id \in DOMAIN costs |-> costs[id] + CountFor(plan, id, 1)]

\* step, lines 90-96: book the commands of a new plan and store it
Register(s, pearl_id, plan) ==
    [s EXCEPT !.execution_plans = (pearl_id :> plan) @@ @,
              !.worker_costs = Book(@, plan)]

\* step, lines 101-104: push (priority, pearl.id, cmd) on the heap of the
\* worker that issues cmd
Push(s, pearl, cmd) ==
    [s EXCEPT !.proposed_cmds =
        (cmd.worker_id :>
            heappush(ProposedAt(@, cmd.worker_id),
                     [priority |-> prioritize_command(cmd, pearl.layers),
                      pearl_id |-> pearl.id, cmd |-> cmd])) @@ @]

\* step, lines 98-104: propose the head of the pearl's plan; plan[0] raises
\* IndexError on an empty plan
Propose(s, pearl) ==
    IF s.execution_plans[pearl.id] = <<>> THEN [s EXCEPT !.err = TRUE]
    ELSE Push(s, pearl, s.execution_plans[pearl.id][1])

\* step, lines 85-108, for one (pearl, worker) of pearl_workers; s holds
\* execution_plans, worker_costs, proposed_cmds and err: the AttributeError of
\* pearl.id (line 87) or the IndexError of plan[0] (line 99)
AcquirePlan(w, aff, s, pearl, worker) ==
    IF ~IsPearl(pearl) THEN [s EXCEPT !.err = TRUE]
    ELSE IF pearl.id \in DOMAIN s.execution_plans THEN Propose(s, pearl)
    ELSE Propose(Register(s, pearl.id,
                    create_execution_plan(w, s.worker_costs, aff, pearl, worker)), pearl)

RECURSIVE ProposeStored(_, _, _)
\* push the head of each stored plan of ids[k..] as a proposal
ProposeStored(s, ids, k) ==
    IF k > Len(ids) THEN s
    ELSE LET cmd  == s.execution_plans[ids[k]][1]
             item == [priority |-> <<0, 1>>, pearl_id |-> ids[k], cmd |-> cmd]
         IN  ProposeStored(
                [s EXCEPT !.proposed_cmds =
                    (cmd.worker_id :> heappush(ProposedAt(s.proposed_cmds, cmd.worker_id), item)) @@ @],
                ids, k + 1)

RECURSIVE AcquireStored(_, _, _, _, _)
\* a loop that also proposes the stored plans of pearls not in pearl_workers
AcquireStored(w, aff, pearl_workers, s, i) ==
    IF s.err THEN s
    ELSE IF i > Len(pearl_workers)
    THEN ProposeStored(s,
            SortedById({p \in DOMAIN s.execution_plans :
                          \A k \in 1..Len(pearl_workers) : pearl_workers[k].pearl.id # p}), 1)
    ELSE AcquireStored(w, aff, pearl_workers,
            AcquirePlan(w, aff, s, pearl_workers[i].pearl, pearl_workers[i].worker), i + 1)

RECURSIVE AcquireAll(_, _, _, _, _)
\* the loop of step, lines 85-108, over pearl_workers.items() from index i on
AcquireAll(w, aff, pearl_workers, s, i) ==
    IF i > Len(pearl_workers) \/ s.err THEN s
    ELSE AcquireAll(w, aff, pearl_workers,
            AcquirePlan(w, aff, s, pearl_workers[i].pearl, pearl_workers[i].worker), i + 1)

\* a selection that takes every proposal of every worker
SelectEvery(proposed) ==
    UNION {{proposed[id][i] : i \in 1..Len(proposed[id])} : id \in DOMAIN proposed}

\* a selection that leaves out every worker two pearls compete for
SelectUncontended(proposed) ==
    {heappop(proposed[id]) : id \in {x \in DOMAIN proposed : Len(proposed[x]) = 1}}

\* step, line 113: one heappop per worker of proposed_cmds
SelectTop(proposed) == {heappop(proposed[id]) : id \in DOMAIN proposed}

\* a dispatch that leaves the booking in place
KeepBooked(c) == c

\* step, line 117: max(0, worker_costs[worker_id] - 1)
Unbook(c) == Max(0, c - 1)

\* a dispatch that advances every stored plan whose head the worker issues
DispatchAllAt(s, item) ==
    LET id    == item.cmd.worker_id
        heads == {p \in DOMAIN s.execution_plans :
                    s.execution_plans[p] # <<>> /\ s.execution_plans[p][1].worker_id = id}
        gone  == {p \in heads : Tail(s.execution_plans[p]) = <<>>}
    IN  [selected_cmds   |-> s.selected_cmds \cup {item.cmd},
         worker_costs    |-> [s.worker_costs EXCEPT ![id] = Unbook(@)],
         execution_plans |-> [p \in DOMAIN s.execution_plans \ gone |->
                                IF p \in heads THEN Tail(s.execution_plans[p])
                                ELSE s.execution_plans[p]]]

\* step, lines 114-130, for one selected (priority, pearl_id, cmd)
DispatchOne(s, item) ==
    LET id   == item.cmd.worker_id
        plan == Tail(s.execution_plans[item.pearl_id])
    IN  [selected_cmds   |-> s.selected_cmds \cup {item.cmd},
         worker_costs    |-> [s.worker_costs EXCEPT ![id] = Unbook(@)],
         execution_plans |-> IF plan = <<>>
                             THEN [p \in DOMAIN s.execution_plans \ {item.pearl_id} |-> s.execution_plans[p]]
                             ELSE [s.execution_plans EXCEPT ![item.pearl_id] = plan]]

RECURSIVE Dispatch(_, _)
\* the loop of step, lines 112-130, over the selected items (they touch
\* different workers and different plans, so their order is immaterial)
Dispatch(s, items) ==
    IF items = {} THEN s
    ELSE LET item == CHOOSE x \in items : \A y \in items : x.pearl_id <= y.pearl_id
         IN  Dispatch(DispatchOne(s, item), items \ {item})

\* step, lines 110-132: what a call that got through its first loop leaves
\* and returns
Returns(acq, done, aff) ==
    [execution_plans |-> done.execution_plans, worker_costs |-> done.worker_costs,
     worker_affinities |-> aff, proposed_cmds |-> acq.proposed_cmds,
     selected_cmds |-> done.selected_cmds, status |-> "ok"]

\* step after its first loop: the exception of the loop leaves what the loop
\* did, otherwise lines 110-132 select and dispatch
Finish(acq, aff) ==
    IF acq.err
    THEN [execution_plans |-> acq.execution_plans, worker_costs |-> acq.worker_costs,
          worker_affinities |-> aff, proposed_cmds |-> acq.proposed_cmds,
          selected_cmds |-> {}, status |-> "error"]
    ELSE Returns(acq,
            Dispatch([selected_cmds |-> {}, worker_costs |-> acq.worker_costs,
                      execution_plans |-> acq.execution_plans],
                     SelectTop(acq.proposed_cmds)),
            aff)

\* step, lines 81-132, with worker_affinities set
StepWith(w, pearl_workers, plans, costs, aff) ==
    Finish(AcquireAll(w, aff, pearl_workers,
              [execution_plans |-> plans, worker_costs |-> costs,
               proposed_cmds |-> <<>>, err |-> FALSE], 1),
           aff)

\* AtlantisSimulator.step from line 69 on, given the pearl_workers of line 68:
\* the scheduler's fields after the call, the commands it returns and whether
\* it returned ("ok") or raised ("error"); the KeyError of lines 78-79 leaves
\* every field as it was
StepFrom(w, pearl_workers, plans, costs, aff) ==
    IF IsNone(aff) /\ find_shortest_path(w, costs, 0, NoEnd).err
    THEN [execution_plans |-> plans, worker_costs |-> costs, worker_affinities |-> aff,
          proposed_cmds |-> <<>>, selected_cmds |-> {}, status |-> "error"]
    ELSE StepWith(w, pearl_workers, plans, costs,
            IF IsNone(aff) THEN create_worker_affinities(w, costs) ELSE aff)

\* AtlantisSimulator.step(world)
step(w, plans, costs, aff) == StepFrom(w, get_pearls_with_workers(w), plans, costs, aff)

(* ------------------------- the host's snapshots ----------------------- *)
\* the layer lists of the pearls in a snapshot: at most MaxLayers layers of
\* one of SnapshotColors, each 0..MaxThick thick
SnapshotColors == {"Green"}
LayerSeqs == UNION {[1..k -> [color : SnapshotColors, thickness : 0..MaxThick]] : k \in 0..MaxLayers}

EdgeSets(n) == SUBSET {e \in (0..(n - 1)) \X (0..(n - 1)) : e[1] < e[2]}

RECURSIVE Reach(_, _)
Reach(E, S) ==
    LET T == S \cup {e[2] : e \in {x \in E : x[1] \in S}} \cup {e[1] : e \in {x \in E : x[2] \in S}}
    IN  IF T = S THEN S ELSE Reach(E, T)

\* the input precondition: unique worker ids, a connected graph with worker 0
Connected(n, E) == Reach(E, {0}) = 0..(n - 1)

\* the kind of worker id in the layouts: General, Vector, Matrix in turn
KindOf(id) == CASE id % 3 = 0 -> "General" [] id % 3 = 1 -> "Vector" [] OTHER -> "Matrix"

\* the layouts a run can have: workers 0..n-1 and any connected graph on them
Layouts ==
    UNION {[workers : {[id \in 0..(n - 1) |-> KindOf(id)]},
            neighbor_map : {E \in EdgeSets(n) : Connected(n, E)}]
           : n \in 1..MaxWorkers}

\* the desks of one snapshot of n workers as get_pearls_with_workers lists them:
\* workers in ascending id and each desk in its own order, every pearl id on
\* one desk only
DeskLists ==
    [n \in 1..MaxWorkers |->
        LET Entries == [id : PearlIds, layers : LayerSeqs, worker : 0..(n - 1)]
        IN  UNION {{d \in [1..k -> Entries] :
                      \A i, j \in 1..k : i < j => d[i].id # d[j].id /\ d[i].worker <= d[j].worker}
                   : k \in 0..MaxPearls}]

(* ------------------------------- the run ------------------------------ *)
VARIABLES world, execution_plans, worker_costs, worker_affinities,
          proposed_cmds, selected_cmds, status, tick, call, result

vars == <<world, execution_plans, worker_costs, worker_affinities,
          proposed_cmds, selected_cmds, status, tick, call, result>>

\* call is a function of the package applied on its own, outside a run, and
\* result what it returned; NoCall and NoResult while there is none
NoCall == [fn |-> "none"]
NoResult == [done |-> FALSE]

\* AtlantisSimulator.__init__, before the first snapshot of a run
Init ==
    /\ \E l \in Layouts : world = [workers |-> l.workers, neighbor_map |-> l.neighbor_map, desks |-> <<>>]
    /\ execution_plans = <<>>
    /\ worker_costs = [id \in WorkerIds(world) |-> 0]
    /\ worker_affinities = None
    /\ proposed_cmds = <<>>
    /\ selected_cmds = {}
    /\ status = "ok"
    /\ tick = 0
    /\ call = NoCall
    /\ result = NoResult

\* the frames the host can send next: the layout of the run with any desks
Frames == {[world EXCEPT !.desks = d] : d \in DeskLists[Cardinality(WorkerIds(world))]}

\* the scheduler's fields and the observed result of a call become r
Becomes(w, r) ==
    /\ world' = w
    /\ execution_plans' = r.execution_plans
    /\ worker_costs' = r.worker_costs
    /\ worker_affinities' = r.worker_affinities
    /\ proposed_cmds' = r.proposed_cmds
    /\ selected_cmds' = r.selected_cmds
    /\ status' = r.status
    /\ tick' = tick + 1
    /\ UNCHANGED <<call, result>>

\* one line of stdin: World.create_from, then sim.step(world); an exception
\* ends the process
Step ==
    /\ status = "ok"
    /\ tick < MaxTicks
    /\ \E w \in Frames :
         Becomes(w, step(w, execution_plans, worker_costs, worker_affinities))

Next == Step

\* the program as it is
Spec == Init /\ [][Next]_vars

\* the body of step from line 69 on, run on the Pearl objects of the desks:
\* what lines 85-132 do once pearl_workers holds what its annotation says
StepOnPearls ==
    /\ status = "ok"
    /\ tick < MaxTicks
    /\ \E w \in Frames :
         Becomes(w, StepFrom(w, PearlObjects(w), execution_plans, worker_costs, worker_affinities))

NextOnPearls == StepOnPearls

PearlSpec == Init /\ [][NextOnPearls]_vars

(* ---------------- a closed run with a host that obeys ------------------- *)
\* The host is not part of the package; it is written down from what the
\* specification says of it: a Pass moves the pearl to to_worker, a Nom bites
\* the top non-zero layer by the worker's rate, and a digested pearl on the
\* gatekeeper's desk leaves the snapshot.

\* the layers of a pearl after one Nom by a worker of kind: the first layer
\* with thickness left loses the rate for its colour
Bitten(kind, layers) ==
    LET left == {i \in 1..Len(layers) : layers[i].thickness # 0}
    IN  IF left = {} THEN layers
        ELSE LET top == CHOOSE i \in left : \A j \in left : i <= j
             IN  [layers EXCEPT ![top].thickness =
                     Max(0, @ - processing_rate(kind, layers[top].color))]

\* a pearl of a desk after the host obeyed cmds: moved by a Pass its holder
\* issued, bitten by a Nom its holder issued, untouched otherwise
Obeyed(w, cmds, d) ==
    LET mine == {c \in cmds : c.pearl_id = d.id /\ c.worker_id = d.worker}
    IN  IF mine = {} THEN d
        ELSE LET c == CHOOSE x \in mine : TRUE
             IN  IF c.type = "Pass" THEN [d EXCEPT !.worker = c.target_worker_id]
                 ELSE [d EXCEPT !.layers = Bitten(w.workers[d.worker], d.layers)]

\* the pearls of the sequence desks that lie on the desk of worker id, in order
RECURSIVE OnDeskOf(_, _)
OnDeskOf(desks, id) ==
    IF desks = <<>> THEN <<>>
    ELSE (IF Head(desks).worker = id THEN <<Head(desks)>> ELSE <<>>) \o OnDeskOf(Tail(desks), id)

\* the desks of workers id..last, one after the other, without the digested
\* pearls of the gatekeeper
RECURSIVE DesksFrom(_, _, _)
DesksFrom(desks, id, last) ==
    IF id > last THEN <<>>
    ELSE SelectSeq(OnDeskOf(desks, id), LAMBDA d : ~(d.worker = 0 /\ digested(d.layers)))
         \o DesksFrom(desks, id + 1, last)

\* the next snapshot of a host that obeys every command of cmds
HostApply(w, cmds) ==
    [w EXCEPT !.desks = DesksFrom([i \in 1..Len(w.desks) |-> Obeyed(w, cmds, w.desks[i])],
                                  0, Cardinality(WorkerIds(w)) - 1)]

\* the first snapshot of a closed run: any layout, any pearls, none of them
\* digested on the gatekeeper's desk
ClosedInit ==
    /\ \E l \in Layouts : \E d \in DeskLists[Cardinality(DOMAIN l.workers)] :
          /\ \A i \in 1..Len(d) : ~(d[i].worker = 0 /\ digested(d[i].layers))
          /\ world = [workers |-> l.workers, neighbor_map |-> l.neighbor_map, desks |-> d]
    /\ execution_plans = <<>>
    /\ worker_costs = [id \in WorkerIds(world) |-> 0]
    /\ worker_affinities = None
    /\ proposed_cmds = <<>>
    /\ selected_cmds = {}
    /\ status = "ok"
    /\ tick = 0
    /\ call = NoCall
    /\ result = NoResult

\* the scheduler answered the snapshot with r and the host made the next
\* snapshot from it; after an exception the process is gone
Answered(r) ==
    /\ world' = IF r.status = "ok" THEN HostApply(world, r.selected_cmds) ELSE world
    /\ execution_plans' = r.execution_plans
    /\ worker_costs' = r.worker_costs
    /\ worker_affinities' = r.worker_affinities
    /\ proposed_cmds' = r.proposed_cmds
    /\ selected_cmds' = r.selected_cmds
    /\ status' = r.status
    /\ tick' = tick + 1
    /\ UNCHANGED <<call, result>>

\* one tick of a closed run of the program as it is, while pearls are in play
Tick ==
    /\ status = "ok"
    /\ world.desks # <<>>
    /\ Answered(step(world, execution_plans, worker_costs, worker_affinities))

ClosedNext == Tick

\* the main loop answers every line it is given
ClosedSpec == ClosedInit /\ [][ClosedNext]_vars /\ WF_vars(Tick)

\* one tick of a closed run of the body of step from line 69 on, run on the
\* Pearl objects of the desks
TickOnPearls ==
    /\ status = "ok"
    /\ world.desks # <<>>
    /\ Answered(StepFrom(world, PearlObjects(world), execution_plans, worker_costs,
                         worker_affinities))

ClosedNextOnPearls == TickOnPearls

ClosedPearlSpec == ClosedInit /\ [][ClosedNextOnPearls]_vars /\ WF_vars(TickOnPearls)

(* ------------- a run whose snapshots need not share one graph ------------ *)
\* every snapshot carries its own workers and neighbor_map (World.create_from
\* builds the world anew from each line), so the graph may differ from one
\* line of stdin to the next; the desks hold MaxRegraphPearls pearls at most
RegraphFrames ==
    UNION {{[workers |-> l.workers, neighbor_map |-> l.neighbor_map, desks |-> d] :
              d \in {x \in DeskLists[Cardinality(DOMAIN l.workers)] : Len(x) <= MaxRegraphPearls}}
           : l \in Layouts}

\* worker_costs is a defaultdict(int): a worker it has no key for has load 0
Defaulted(costs, w) ==
    [id \in DOMAIN costs \cup WorkerIds(w) |-> IF id \in DOMAIN costs THEN costs[id] ELSE 0]

\* one line of stdin with any graph: the body of step from line 69 on, run on
\* the Pearl objects of the desks
StepOnAnyGraph ==
    /\ status = "ok"
    /\ tick < MaxTicks
    /\ \E w \in RegraphFrames :
         Becomes(w, StepFrom(w, PearlObjects(w), execution_plans,
                             Defaulted(worker_costs, w), worker_affinities))

RegraphNext == StepOnAnyGraph

RegraphSpec == Init /\ [][RegraphNext]_vars

(* ------------------- the functions applied on their own --------------- *)
\* the layer lists given to the cost and pearl functions: at most
\* MaxCostLayers layers of any colour, each 0..MaxCostThick thick
CostLayerSeqs ==
    UNION {[1..k -> [color : Colors, thickness : 0..MaxCostThick]] : k \in 0..MaxCostLayers}

\* worker.cost_pearl(pearl) and pearl.remaining_thickness / pearl.digested for
\* a worker of each kind and each pearl
CostCalls ==
    [fn : {"cost_pearl"}, kind : Kinds, layers : CostLayerSeqs]
PearlCalls ==
    [fn : {"pearl"}, layers : CostLayerSeqs]

\* the scheduler's variables keep their values of construction while a
\* function is applied on its own
Idle ==
    /\ world = [workers |-> <<>>, neighbor_map |-> {}, desks |-> <<>>]
    /\ execution_plans = <<>>
    /\ worker_costs = <<>>
    /\ worker_affinities = None
    /\ proposed_cmds = <<>>
    /\ selected_cmds = {}
    /\ status = "ok"
    /\ tick = 0

Returned(v) ==
    /\ result' = [done |-> TRUE, value |-> v]
    /\ UNCHANGED <<world, execution_plans, worker_costs, worker_affinities,
                   proposed_cmds, selected_cmds, status, tick, call>>

CostInit ==
    /\ Idle
    /\ call \in CostCalls \cup PearlCalls
    /\ result = NoResult

\* worker.cost_pearl(pearl), with the cost_layer of each layer
CallCostPearl ==
    /\ call.fn = "cost_pearl"
    /\ ~result.done
    /\ Returned([cost_pearl |-> cost_pearl(call.kind, call.layers),
                 cost_layer |-> [i \in 1..Len(call.layers) |-> cost_layer(call.kind, call.layers[i])]])

\* pearl.remaining_thickness and pearl.digested
CallPearl ==
    /\ call.fn = "pearl"
    /\ ~result.done
    /\ Returned([remaining_thickness |-> remaining_thickness(call.layers),
                 digested |-> digested(call.layers)])

CostNext == CallCostPearl \/ CallPearl

CostSpec == CostInit /\ [][CostNext]_vars

(* ---------------- the plan builder applied on its own ----------------- *)
\* four workers in a ring, 0-1-3-2-0
Square ==
    [workers |-> [id \in 0..3 |-> KindOf(id)],
     neighbor_map |-> {<<0, 1>>, <<0, 2>>, <<1, 3>>, <<2, 3>>}, desks |-> <<>>]

\* five workers, 0-1-3-4 and 0-2-4
Diamond ==
    [workers |-> [id \in 0..4 |-> KindOf(id)],
     neighbor_map |-> {<<0, 1>>, <<1, 3>>, <<3, 4>>, <<0, 2>>, <<2, 4>>}, desks |-> <<>>]

\* the worlds the builder is applied to: every layout of two workers or more,
\* the ring and the diamond
PlanWorlds ==
    {[workers |-> l.workers, neighbor_map |-> l.neighbor_map, desks |-> <<>>] :
        l \in {x \in Layouts : Cardinality(DOMAIN x.workers) >= 2}}
    \cup {Square, Diamond}

\* the pearls the builder is applied to: no layer, or one layer 0..MaxCostThick
\* thick
PlanPearls ==
    {[id |-> 1, layers |-> <<>>]}
    \cup {[id |-> 1, layers |-> <<[color |-> c, thickness |-> t]>>] :
            c \in SnapshotColors, t \in 0..MaxCostThick}

\* worker_costs at the call: any load 0..MaxLoad on each worker
Loads(w) == [WorkerIds(w) -> 0..MaxLoad]

\* worker_affinities at the call: step creates them once, in its first call,
\* when worker_costs is still empty
FirstAffinities(w) == create_worker_affinities(w, [id \in WorkerIds(w) |-> 0])

\* find_route(start, end, world) for every start and end
RouteCalls ==
    UNION {[fn : {"find_route"}, w : {w}, costs : Loads(w),
            start : WorkerIds(w), endw : WorkerIds(w)] : w \in PlanWorlds}

\* create_execution_plan(pearl, worker, world) for every pearl and holder
PlanCalls ==
    UNION {[fn : {"create_execution_plan"}, w : {w}, costs : Loads(w),
            aff : {FirstAffinities(w)}, pearl : PlanPearls, worker : WorkerIds(w)]
           : w \in PlanWorlds}

PlanInit ==
    /\ Idle
    /\ call \in RouteCalls \cup PlanCalls
    /\ result = NoResult

\* self.find_route(start, end, world)
CallFindRoute ==
    /\ call.fn = "find_route"
    /\ ~result.done
    /\ Returned(find_route(call.w, call.costs, call.start, call.endw))

\* self.create_execution_plan(pearl, worker, world), with the route it took
CallCreatePlan ==
    /\ call.fn = "create_execution_plan"
    /\ ~result.done
    /\ Returned([route |-> ExecutionRoute(call.w, call.costs, call.aff, call.pearl, call.worker),
                 plan  |-> create_execution_plan(call.w, call.costs, call.aff, call.pearl, call.worker)])

PlanNext == CallFindRoute \/ CallCreatePlan

PlanSpec == PlanInit /\ [][PlanNext]_vars

(* ----------------------------- properties ---------------------------- *)
\* the desk entries of the snapshot of the last call
Desks == {world.desks[i] : i \in 1..Len(world.desks)}
OnDesk(p) == \E d \in Desks : d.id = p
ThicknessOf(p) == remaining_thickness((CHOOSE d \in Desks : d.id = p).layers)
\* the proposals of the last call that were not selected, and those that were
Losers(prop) == UNION {{prop[id][k] : k \in 2..Len(prop[id])} : id \in DOMAIN prop}
Winners(prop) == {prop[id][1] : id \in DOMAIN prop}

RECURSIVE BookedIn(_, _, _)
\* the commands worker id issues in the plans of the pearls ids
BookedIn(plans, ids, id) ==
    IF ids = {} THEN 0
    ELSE LET p == CHOOSE x \in ids : TRUE
         IN  CountFor(plans[p], id, 1) + BookedIn(plans, ids \ {p}, id)

\* C1: the commands one call of step returns hold at most one command per
\* issuing worker
C1_OneCommandPerWorker ==
    \A c1, c2 \in selected_cmds : c1.worker_id = c2.worker_id => c1 = c2

\* two pearls proposed a command of the same worker and one was returned
C1_Witness ==
    /\ status = "ok"
    /\ \E id \in DOMAIN proposed_cmds :
         Len(proposed_cmds[id]) >= 2 /\ \E c \in selected_cmds : c.worker_id = id

\* C2: every command step returns for a pearl is issued by the worker that
\* holds the pearl in the snapshot of that call (a stored plan whose head
\* names another worker is replaced by a plan from the holder first)
C2_IssuedByHolder ==
    \A c \in selected_cmds : \E d \in Desks : d.id = c.pearl_id /\ d.worker = c.worker_id

C4_PearlInSnapshot ==
    \A c \in selected_cmds : OnDesk(c.pearl_id)

\* commands were returned while the plan of an absent pearl was stored
C4_Witness ==
    /\ status = "ok"
    /\ selected_cmds # {}
    /\ \E p \in DOMAIN execution_plans : ~OnDesk(p)

\* C5: step returns a command set for every valid snapshot and every prior
\* state; no exception leaves it
C5_NoExceptionEscapes == status # "error"

\* C6: a digested pearl on the desk of worker 0 gets no plan and no command,
\* and the call returns
C6_DigestedAtGateSkipped ==
    \A d \in Desks :
        (d.worker = 0 /\ digested(d.layers)) =>
            /\ status = "ok"
            /\ d.id \notin DOMAIN execution_plans
            /\ \A c \in selected_cmds : c.pearl_id # d.id

\* C7: when the heads of several pearls' plans name the same worker, the
\* command returned for that worker is the one of the pearl smallest under
\* (remaining_thickness, pearl id)
C7_ThinnestFirst ==
    status = "ok" =>
        \A id \in DOMAIN proposed_cmds :
            Len(proposed_cmds[id]) >= 2 =>
                LET ps   == {proposed_cmds[id][k].pearl_id : k \in 1..Len(proposed_cmds[id])}
                    best == CHOOSE p \in ps : \A q \in ps :
                               \/ ThicknessOf(p) < ThicknessOf(q)
                               \/ ThicknessOf(p) = ThicknessOf(q) /\ p <= q
                IN  \E c \in selected_cmds : c.worker_id = id /\ c.pearl_id = best

RECURSIVE SumOf(_, _)
\* the sum of f over S
SumOf(f, S) ==
    IF S = {} THEN 0
    ELSE LET x == CHOOSE y \in S : TRUE IN f[x] + SumOf(f, S \ {x})

\* the plan a call built for pearl p, read back from the state after the call:
\* what is stored, behind the command the call returned if p won its worker
BuiltPlan(p) ==
    LET rest == IF p \in DOMAIN execution_plans' THEN execution_plans'[p] ELSE <<>>
        won  == {it \in Winners(proposed_cmds') : it.pearl_id = p}
    IN  IF won = {} THEN rest ELSE <<(CHOOSE it \in won : TRUE).cmd>> \o rest

\* one returning call: the losers keep their plans, the winners' plans lose
\* their head only, and each worker's load changes by what was booked for new
\* plans less one if a command of it was returned
LoserUntouched ==
    status' = "ok" =>
        /\ \A it \in Losers(proposed_cmds') :
             /\ it.pearl_id \in DOMAIN execution_plans'
             /\ execution_plans'[it.pearl_id][1] = it.cmd
             /\ it.pearl_id \in DOMAIN execution_plans =>
                    execution_plans'[it.pearl_id] = execution_plans[it.pearl_id]
        /\ \A it \in Winners(proposed_cmds') :
             it.pearl_id \in DOMAIN execution_plans =>
                LET rest == Tail(execution_plans[it.pearl_id])
                IN  IF rest = <<>> THEN it.pearl_id \notin DOMAIN execution_plans'
                    ELSE execution_plans'[it.pearl_id] = rest
        /\ \A id \in WorkerIds(world') :
             LET new == {world'.desks[i].id : i \in 1..Len(world'.desks)} \ DOMAIN execution_plans
             IN  worker_costs'[id] =
                    worker_costs[id] + SumOf([p \in new |-> CountFor(BuiltPlan(p), id, 1)], new)
                    - (IF id \in DOMAIN proposed_cmds' THEN 1 ELSE 0)

\* C8: a pearl whose head command loses its worker in a tick keeps its plan
\* and costs the worker's load nothing; only the selected pearl's plan
\* advances, by one command
C8_LoserUntouched == [][LoserUntouched]_vars

\* in a second tick a pearl lost its worker and still has commands to come
C8_Witness ==
    /\ status = "ok"
    /\ tick = 2
    /\ \E it \in Losers(proposed_cmds) :
         it.pearl_id \in DOMAIN execution_plans /\ Len(execution_plans[it.pearl_id]) >= 2

\* C9: after every step each worker's load equals the number of commands it
\* issues in the stored plans
C9_LoadCountsPlans ==
    \A id \in WorkerIds(world) :
        worker_costs[id] = BookedIn(execution_plans, DOMAIN execution_plans, id)

\* after two ticks that returned commands a worker still has two bookings
C9_Witness ==
    /\ status = "ok"
    /\ tick = 2
    /\ selected_cmds # {}
    /\ \E id \in WorkerIds(world) : worker_costs[id] >= 2

\* C10: after every step every worker's load is a non-negative integer
C10_LoadNonNegative ==
    \A id \in WorkerIds(world) : worker_costs[id] \in Nat

\* a plan is stored for a pearl that vanished and another pearl lies on a desk
\* its plan's head does not name
C10_Witness ==
    /\ tick = 2
    /\ \E p \in DOMAIN execution_plans : ~OnDesk(p)
    /\ \E d \in Desks :
         /\ d.id \in DOMAIN execution_plans
         /\ execution_plans[d.id] # <<>>
         /\ execution_plans[d.id][1].worker_id # d.worker

\* C11: after every step every stored plan is a non-empty command sequence
C11_PlansNonEmpty ==
    \A p \in DOMAIN execution_plans : execution_plans[p] # <<>>

\* the rate table of the three kinds for (Red, Green, Blue)
Rate ==
    [General |-> [Red |-> 1, Green |-> 1, Blue |-> 1],
     Vector  |-> [Red |-> 1, Green |-> 5, Blue |-> 2],
     Matrix  |-> [Red |-> 1, Green |-> 2, Blue |-> 10]]

\* the least integer n with n * r >= t
Ceiling(t, r) == CHOOSE n \in 0..t : n * r >= t /\ \A m \in 0..t : m * r >= t => n <= m

\* C17: cost_layer is the integer ceiling of thickness / rate of the table,
\* and cost_pearl the sum of cost_layer over the layers
C17_CostIsCeiling ==
    (call.fn = "cost_pearl" /\ result.done) =>
        LET n == Len(call.layers)
            c == [i \in 1..n |->
                    Ceiling(call.layers[i].thickness, Rate[call.kind][call.layers[i].color])]
        IN  /\ \A i \in 1..n : result.value.cost_layer[i] = c[i]
            /\ result.value.cost_pearl = SumOf(c, 1..n)

\* a Vector worker costed the pearl [Green 11, Blue 10] at 3 + 5
C17_Witness ==
    /\ call.fn = "cost_pearl"
    /\ result.done
    /\ call.kind = "Vector"
    /\ call.layers = <<[color |-> "Green", thickness |-> 11], [color |-> "Blue", thickness |-> 10]>>
    /\ result.value.cost_pearl = 8

\* C18: remaining_thickness is the sum of the layers' thicknesses and
\* digested holds exactly when it is 0, without layers as with zero layers
C18_DigestedIffZero ==
    (call.fn = "pearl" /\ result.done) =>
        LET n == Len(call.layers)
        IN  /\ result.value.remaining_thickness =
                   SumOf([i \in 1..n |-> call.layers[i].thickness], 1..n)
            /\ result.value.digested <=> (result.value.remaining_thickness = 0)

\* a pearl of two layers, both of thickness 0, was found digested
C18_Witness ==
    /\ call.fn = "pearl"
    /\ result.done
    /\ Len(call.layers) = 2
    /\ \A i \in 1..2 : call.layers[i].thickness = 0
    /\ result.value.digested

\* C12: the plan of a digested pearl holds Pass commands only; the plan of any
\* other pearl holds exactly cost_pearl(pearl, w) Nom commands, all issued by
\* the last worker w of its route
C12_NomsAreCostAtTarget ==
    (call.fn = "create_execution_plan" /\ result.done) =>
        LET plan   == result.value.plan
            layers == call.pearl.layers
            target == result.value.route[Len(result.value.route)]
            noms   == {i \in 1..Len(plan) : plan[i].type = "Nom"}
            cost   == SumOf([i \in 1..Len(layers) |->
                               Ceiling(layers[i].thickness,
                                       Rate[call.w.workers[target]][layers[i].color])],
                            1..Len(layers))
        IN  IF \A i \in 1..Len(layers) : layers[i].thickness = 0
            THEN noms = {}
            ELSE /\ Cardinality(noms) = cost
                 /\ \A i \in noms : plan[i].worker_id = target

\* a pearl of one Green layer 11 thick was passed on to a Vector worker and
\* got 3 Nom commands there
C12_Witness ==
    /\ call.fn = "create_execution_plan"
    /\ result.done
    /\ call.pearl.layers = <<[color |-> "Green", thickness |-> 11]>>
    /\ Len(result.value.route) >= 2
    /\ call.w.workers[result.value.route[Len(result.value.route)]] = "Vector"
    /\ Cardinality({i \in 1..Len(result.value.plan) : result.value.plan[i].type = "Nom"}) = 3

\* whether two workers of w are neighbours
Adjacent(w, a, b) == b \in NeighborSet(w, a)

\* the weight of a route: 1 + load of every worker entered after the first
RouteWeight(costs, route) ==
    SumOf([i \in 2..Len(route) |-> 1 + costs[route[i]]], 2..Len(route))

RECURSIVE Distances(_, _, _, _)
\* the least weights from start after k more rounds of relaxing every edge
Distances(w, costs, d, k) ==
    IF k = 0 THEN d
    ELSE Distances(w, costs,
            [v \in WorkerIds(w) |->
                LET via == {d[u] + 1 + costs[v] : u \in NeighborSet(w, v)} \cup {d[v]}
                IN  CHOOSE x \in via : \A y \in via : x <= y],
            k - 1)

\* the least weight of a path from start to each worker of w
MinWeight(w, costs, start) ==
    Distances(w, costs, [v \in WorkerIds(w) |-> IF v = start THEN 0 ELSE Inf],
              Cardinality(WorkerIds(w)))

\* C13: the route find_route returns is a path from start to goal of the
\* least total weight, 1 + worker_load[v] for every worker v entered
C13_RouteIsShortest ==
    (call.fn = "find_route" /\ result.done) =>
        LET route == result.value
        IN  /\ route[1] = call.start
            /\ route[Len(route)] = call.endw
            /\ \A i \in 1..(Len(route) - 1) : Adjacent(call.w, route[i], route[i + 1])
            /\ RouteWeight(call.costs, route) = MinWeight(call.w, call.costs, call.start)[call.endw]


\* the predecessor a worker keeps when the first one discovered at its least
\* distance wins: workers leave the queue in (distance, id) order, and every
\* predecessor that gives v its least distance is at the same distance, so the
\* first of them is the one of lowest id
FirstPredecessor(w, costs, start, v) ==
    LET d  == MinWeight(w, costs, start)
        at == {u \in NeighborSet(w, v) : d[u] + 1 + costs[v] = d[v]}
    IN  CHOOSE u \in at : \A x \in at : u <= x

RECURSIVE FirstDiscoveredRoute(_, _, _, _)
FirstDiscoveredRoute(w, costs, start, v) ==
    IF v = start THEN <<v>>
    ELSE FirstDiscoveredRoute(w, costs, start, FirstPredecessor(w, costs, start, v)) \o <<v>>

\* C14: the route find_route returns is the one on which every worker keeps
\* the predecessor discovered first at its least distance (neighbours in
\* ascending id), so among routes of equal weight the one through the lower
\* ids is returned
C14_FirstPredecessorKept ==
    (call.fn = "find_route" /\ result.done) =>
        result.value = FirstDiscoveredRoute(call.w, call.costs, call.start, call.endw)

\* the diamond example of C14: from worker 4 to the gatekeeper with no load
C14_DiamondExample ==
    (call.fn = "find_route" /\ result.done /\ call.w = Diamond
        /\ call.start = 4 /\ call.endw = 0 /\ \A v \in 0..4 : call.costs[v] = 0)
    => result.value = <<4, 2, 0>>


\* the worker a built route ends at
Target(route) == route[Len(route)]

\* create_execution_plan was applied to a pearl with something left to nom
PlannedToNom ==
    call.fn = "create_execution_plan" /\ result.done /\ ~digested(call.pearl.layers)

\* the total of C15 for worker v: the least weight of a path from the holder,
\* 1 + worker_load of every worker entered, plus the cost of the pearl at v;
\* staying at the holder costs the pearl there, plus twice the number of
\* workers when the holder is the gatekeeper
StatedTotal(w, costs, pearl, holder, v) ==
    IF v = holder
    THEN cost_pearl(w.workers[v], pearl.layers)
         + (IF holder = 0 THEN 2 * Cardinality(WorkerIds(w)) ELSE 0)
    ELSE MinWeight(w, costs, holder)[v] + cost_pearl(w.workers[v], pearl.layers)

\* C15 as stated: the target of the plan of a pearl that is not digested
\* has the least stated total among all workers
C15_TargetMinimizesStatedTotal ==
    PlannedToNom =>
        \A v \in WorkerIds(call.w) :
            StatedTotal(call.w, call.costs, call.pearl, call.worker, Target(result.value.route))
                <= StatedTotal(call.w, call.costs, call.pearl, call.worker, v)

\* the number of Pass commands on a shortest way from the holder to each worker
Hops(w, holder) == MinWeight(w, [v \in WorkerIds(w) |-> 0], holder)

\* hops from the holder, plus the cost of the pearl at v, plus the load and the
\* affinity of v alone
BookedTotal(w, costs, aff, pearl, holder, v) ==
    Hops(w, holder)[v] + cost_pearl(w.workers[v], pearl.layers) + costs[v] + Affinity(aff, v)

\* C15 amended: the target of the plan of a pearl that is not digested
\* minimizes, over all workers v, the number of hops from the holder plus
\* cost_pearl(pearl, v) plus worker_load[v] plus worker_affinities[v]; loads on
\* the way are not counted and the holder gets no other penalty. The FIFO
\* traversal with pruning finds the same least total as looking at every worker
C15_TargetMinimizesBookedTotal ==
    PlannedToNom =>
        \A v \in WorkerIds(call.w) :
            BookedTotal(call.w, call.costs, call.aff, call.pearl, call.worker, Target(result.value.route))
                <= BookedTotal(call.w, call.costs, call.aff, call.pearl, call.worker, v)

\* a pearl is sent away from its holder although a third worker would be worse
C15_Witness ==
    /\ PlannedToNom
    /\ Target(result.value.route) # call.worker
    /\ Len(result.value.route) > 2
    /\ \E v \in WorkerIds(call.w) :
          BookedTotal(call.w, call.costs, call.aff, call.pearl, call.worker, v)
            > BookedTotal(call.w, call.costs, call.aff, call.pearl, call.worker, Target(result.value.route))


\* no desk of the snapshot w holds a pearl
NoPearls(w) == w.desks = <<>>

\* step returned no command and left plans and worker_load as they were
IdleStep ==
    /\ status' = "ok"
    /\ selected_cmds' = {}
    /\ execution_plans' = execution_plans
    /\ worker_costs' = worker_costs

\* C19: when no desk of the snapshot holds a pearl, step returns an empty
\* command set and leaves plans and worker_load unchanged, on every connected
\* graph that contains worker 0
C19_NoPearlsNoCommands == [][NoPearls(world') => IdleStep]_vars

\* the same on the graphs where every worker has a neighbour
C19_NoPearlsNoCommandsOnEdges ==
    [][(NoPearls(world') /\ \A id \in WorkerIds(world') : HasNeighbors(world', id))
          => IdleStep]_vars


\* the proposals made to worker id in the last call
ProposalsTo(id) == {proposed_cmds[id][k] : k \in 1..Len(proposed_cmds[id])}

\* C20: when a Pass of one pearl and a Nom of another are proposed to the same
\* issuing worker in one tick, the command returned for that worker is the
\* Pass, whatever the remaining thicknesses and ids of the two pearls
C20_PassBeatsNom ==
    status = "ok" =>
        \A id \in DOMAIN proposed_cmds :
            (\E a, b \in ProposalsTo(id) : a.cmd.type = "Pass" /\ b.cmd.type = "Nom")
                => \E c \in selected_cmds : c.worker_id = id /\ c.type = "Pass"


\* the largest hop distance of a worker of w from the gatekeeper
Furthest(w) ==
    CHOOSE D \in {Hops(w, 0)[v] : v \in WorkerIds(w)} :
        \A v \in WorkerIds(w) : Hops(w, 0)[v] <= D

\* C21: the affinities created in the first call, with no load booked, give
\* every worker the largest hop distance from the gatekeeper minus its own:
\* the gatekeeper gets the distance to the furthest worker, the furthest
\* worker gets 0
C21_AffinityIsDistanceLeft ==
    (~IsNone(worker_affinities) /\ call = NoCall) =>
        \A v \in WorkerIds(world) :
            Affinity(worker_affinities, v) = Furthest(world) - Hops(world, 0)[v]

\* the same on the graphs without a cycle: every line and star of workers
C21_AffinityIsDistanceLeftOnTrees ==
    (/\ ~IsNone(worker_affinities) /\ call = NoCall
     /\ Cardinality(world.neighbor_map) = Cardinality(WorkerIds(world)) - 1) =>
        \A v \in WorkerIds(world) :
            Affinity(worker_affinities, v) = Furthest(world) - Hops(world, 0)[v]


\* plan is k Pass commands in a chain from holder, then Nom commands of the
\* worker the chain ends at
ChainThenNoms(plan, holder, k) ==
    /\ \A i \in 1..k : plan[i].type = "Pass"
    /\ \A i \in (k + 1)..Len(plan) : plan[i].type = "Nom"
    /\ k >= 1 => plan[1].worker_id = holder
    /\ \A i \in 1..(k - 1) : plan[i].target_worker_id = plan[i + 1].worker_id
    /\ \A i \in (k + 1)..Len(plan) :
          plan[i].worker_id = (IF k = 0 THEN holder ELSE plan[k].target_worker_id)

\* C22: a plan built for a pearl held by worker S is zero or more Pass commands
\* in a contiguous chain that starts at S, then zero or more Nom commands all
\* issued by the last worker of the chain; no Pass follows a Nom and every
\* command carries the pearl's id
C22_PlanShape ==
    (call.fn = "create_execution_plan" /\ result.done) =>
        /\ \A i \in 1..Len(result.value.plan) : result.value.plan[i].pearl_id = call.pearl.id
        /\ \E k \in 0..Len(result.value.plan) :
              ChainThenNoms(result.value.plan, call.worker, k)

\* a plan of two Pass commands or more, then Nom commands
C22_Witness ==
    /\ call.fn = "create_execution_plan"
    /\ result.done
    /\ Len(result.value.plan) >= 3
    /\ result.value.plan[2].type = "Pass"
    /\ result.value.plan[Len(result.value.plan)].type = "Nom"


\* the pearls with a stored plan that lie on a desk of the snapshot
PlannedOnDesk == {p \in DOMAIN execution_plans : OnDesk(p)}

\* C24: after every step that returned, every pearl id with a stored plan is
\* on a desk of the snapshot just processed, and no worker carries load for
\* the plan of a pearl that left the snapshot
C24_PlansOnlyInFlight ==
    (status = "ok" /\ tick >= 1) =>
        /\ \A p \in DOMAIN execution_plans : OnDesk(p)
        /\ \A id \in WorkerIds(world) :
              worker_costs[id] = BookedIn(execution_plans, PlannedOnDesk, id)


\* the workers named by the head of the plan of a pearl of the snapshot of a
\* returning call, every pearl having its plan
HeadWorkers ==
    {BuiltPlan(world'.desks[i].id)[1].worker_id : i \in 1..Len(world'.desks)}

RECURSIVE BackTo(_, _, _, _)
\* following the predecessor map paths from v reaches start, without coming to
\* a worker of seen again and without meeting a worker that has no entry
BackTo(paths, start, v, seen) ==
    IF v = start THEN TRUE
    ELSE IF v \in seen \/ v \notin DOMAIN paths THEN FALSE
    ELSE BackTo(paths, start, paths[v], seen \cup {v})

\* route goes from start to endw and holds no worker twice
SimpleRoute(route, start, endw) ==
    /\ route[1] = start
    /\ route[Len(route)] = endw
    /\ \A i, j \in 1..Len(route) : i # j => route[i] # route[j]

\* C27: following the predecessor map of find_shortest_path or of
\* select_best_worker_route back from the chosen end reaches the start in
\* finitely many steps, on no worker twice and on none without an entry, and
\* the route built begins with the start and ends with the end
C27_RouteIsSimple ==
    /\ (call.fn = "find_route" /\ result.done) =>
          /\ BackTo(find_shortest_path(call.w, call.costs, call.start, call.endw).move_paths,
                    call.start, call.endw, {})
          /\ SimpleRoute(result.value, call.start, call.endw)
    /\ PlannedToNom =>
          /\ BackTo(BestWorkerSearch(call.w, call.costs, call.aff, call.pearl, call.worker).move_paths,
                    call.worker,
                    BestWorkerSearch(call.w, call.costs, call.aff, call.pearl, call.worker).best_worker,
                    {})
          /\ SimpleRoute(result.value.route, call.worker,
                BestWorkerSearch(call.w, call.costs, call.aff, call.pearl, call.worker).best_worker)

\* a route over four workers was built while some worker carried load
C27_Witness ==
    /\ call.fn = "find_route"
    /\ result.done
    /\ Len(result.value) >= 4
    /\ \E v \in WorkerIds(call.w) : call.costs[v] > 0


\* what a call emits and leaves, as C25 counts it: the commands, whether the
\* call returned, the plans, and the load of every worker of the snapshot w
Emitted(w, r) ==
    <<r.selected_cmds, r.status, r.execution_plans, [id \in WorkerIds(w) |-> r.worker_costs[id]]>>

\* a scheduler that holds no plan and no load, as a fresh one does
NothingBooked ==
    /\ execution_plans = <<>>
    /\ \A id \in DOMAIN worker_costs : worker_costs[id] = 0

\* C25: the commands step emits and the plans and worker_load it leaves are a
\* function of the snapshot, the plans and the worker_load alone. Taking a
\* fresh scheduler for the second of the two: a scheduler that holds no plan
\* and no load emits and leaves on every snapshot what a fresh scheduler does,
\* whatever snapshots and graphs it processed before
C25_SameAsFresh ==
    [][NothingBooked =>
          Emitted(world', [selected_cmds |-> selected_cmds', status |-> status',
                           execution_plans |-> execution_plans', worker_costs |-> worker_costs'])
            = Emitted(world', StepFrom(world', PearlObjects(world'), <<>>,
                                       [id \in WorkerIds(world') |-> 0], None))]_vars


\* C23: in a closed run with a host that obeys, no pearl starves: every pearl
\* is eventually digested and returned to the gatekeeper.  In its finite form:
\* the run never comes to rest with a pearl left on a desk.  Tick is the only
\* step of a closed run and needs status = "ok", so under WF_vars(Tick) a
\* state with a pearl on a desk and the scheduler stopped is where the run
\* stays for ever
C23_NoPearlStarves == world.desks # <<>> => status = "ok"

\* the same for the body of step run on the Pearl objects of the desks, in a
\* world of two workers or more: no run comes to rest with a pearl on a desk,
\* and every run is over within seven lines of stdin, so that no run goes on
\* for ever either
C23_NoPearlStarvesOnPearls ==
    /\ Cardinality(WorkerIds(world)) >= 2 => (world.desks # <<>> => status = "ok")
    /\ tick <= 7

====
